---------------------------- MODULE Spec2Model ----------------------------
(***************************************************************************)
(* Keystroke-dynamics authentication (RythmicPassword).                    *)
(*                                                                         *)
(* The model follows src/Rythmic-V1.3.py: the KeystrokeAuthenticator class *)
(* and the Flask routes that call it.  The statistics and the scoring      *)
(* function are textually the same in src/Rythmic-v1.2.py.                 *)
(*                                                                         *)
(* Numbers.  Python floats are modelled as fixed-point numbers: a feature  *)
(* value v is held as the integer floor(v * Resolution).  Keystroke        *)
(* intervals are whole ticks.  A similarity is an exact fraction           *)
(* [num, den] in lowest terms, so that comparisons with 0, 1 and 0.60 are  *)
(* exact.                                                                  *)
(*                                                                         *)
(* Python values.  None is the record None; a dict is a function from its  *)
(* keys; `not x` on None or on an empty dict is Falsy(x).                  *)
(***************************************************************************)
EXTENDS Integers, Sequences, FiniteSets, TLC

VARIABLES
  profiles,   \* auth.profiles: username -> profile (in memory)
  disk,       \* the content of profile_file as json.load would return it
  last,       \* the request last handled, what it called and what it answered
  deleted,    \* history: the usernames deleted and not enrolled again since
  sc,         \* a direct call of compare_timing_profiles: arguments and result
  ex,         \* a direct call of calculate_timing_features or enroll_user
  th,         \* the request each server thread is handling, and where it is
  snaps       \* history: auth.profiles as it stood when an enroll or a delete
              \* returned, and at start

vars == <<profiles, disk, last, deleted, sc, ex, th, snaps>>

---------------------------------------------------------------------------
(* Bounds of the model *)

\* the largest number of timing samples in one enrollment request
MaxSamples == 3
\* fixed-point resolution: a feature value v is held as floor(v * Resolution)
Resolution == 6
\* the largest feature value (in fixed-point units) handed to a direct
\* call of compare_timing_profiles
MaxFeature == 2
\* the longest timing sample, and the longest interval in ticks, handed to a
\* direct call of calculate_timing_features
MaxLen == 4
MaxTick == 2

---------------------------------------------------------------------------
(* Python values *)

None == [py_none |-> TRUE]

\* `not x` for x a dict or None
Falsy(x) == x = None \/ DOMAIN x = {}

\* `not s` for s a username
FalsyStr(s) == s = ""

\* `not s` for s a password (a str is the sequence of its characters)
FalsyChars(s) == s = <<>>

EmptyDict == [k \in {} |-> 0]

RECURSIVE Gcd(_, _)
Gcd(a, b) == IF b = 0 THEN a ELSE Gcd(b, a % b)

\* the fraction n/d (n >= 0, d > 0) in lowest terms
Frac(n, d) == LET g == Gcd(n, d) IN [num |-> n \div g, den |-> d \div g]

Zero == [num |-> 0, den |-> 1]
One == [num |-> 1, den |-> 1]

\* a >= b for fractions
FracGeq(a, b) == a.num * b.den >= b.num * a.den

RECURSIVE SumSeq(_)
SumSeq(s) == IF s = <<>> THEN 0 ELSE Head(s) + SumSeq(Tail(s))

Abs(x) == IF x < 0 THEN -x ELSE x

Max2(a, b) == IF a >= b THEN a ELSE b

Isqrt(n) == CHOOSE r \in 0..n : r * r <= n /\ (r + 1) * (r + 1) > n

---------------------------------------------------------------------------
(* calculate_timing_features *)

feature_keys == <<"mean", "median", "stdev", "min", "max", "total_time">>

\* statistics.mean of a non-empty sequence of fixed-point values
StatMean(values) == SumSeq(values) \div Len(values)

\* statistics.median of ticks, in fixed-point units
StatMedian(timings) ==
  LET s == SortSeq(timings, LAMBDA a, b : a < b)
      n == Len(s)
  IN  IF n % 2 = 1 THEN s[(n + 1) \div 2] * Resolution
      ELSE ((s[n \div 2] + s[n \div 2 + 1]) * Resolution) \div 2

\* statistics.stdev (divisor n - 1) of ticks, in fixed-point units
StatStdev(timings) ==
  LET n  == Len(timings)
      s1 == SumSeq(timings)
      s2 == SumSeq([i \in 1..n |-> timings[i] * timings[i]])
  IN  Isqrt(((n * s2 - s1 * s1) * Resolution * Resolution) \div (n * (n - 1)))

SeqMin(s) == CHOOSE x \in {s[i] : i \in 1..Len(s)} :
               \A j \in 1..Len(s) : x <= s[j]

SeqMax(s) == CHOOSE x \in {s[i] : i \in 1..Len(s)} :
               \A j \in 1..Len(s) : x >= s[j]

calculate_timing_features_from_one(timings) ==
  IF Len(timings) < 1 THEN None
  ELSE [mean       |-> (SumSeq(timings) * Resolution) \div Len(timings),
        median     |-> StatMedian(timings),
        stdev      |-> IF Len(timings) > 1 THEN StatStdev(timings) ELSE 0,
        min        |-> SeqMin(timings) * Resolution,
        max        |-> SeqMax(timings) * Resolution,
        total_time |-> SumSeq(timings) * Resolution]

calculate_timing_features(timings) ==
  IF Len(timings) < 2 THEN None
  ELSE [mean       |-> (SumSeq(timings) * Resolution) \div Len(timings),
        median     |-> StatMedian(timings),
        stdev      |-> IF Len(timings) > 1 THEN StatStdev(timings) ELSE 0,
        min        |-> SeqMin(timings) * Resolution,
        max        |-> SeqMax(timings) * Resolution,
        total_time |-> SumSeq(timings) * Resolution]

---------------------------------------------------------------------------
(* compare_timing_profiles *)

\* the keys of `weights`, in the order the loop visits them
weight_keys == <<"mean", "median", "stdev", "total_time">>

\* weights, in tenths
weights == [mean |-> 3, median |-> 2, stdev |-> 2, total_time |-> 3]

KeyDen_first(p1, p2, key) ==
  IF p1[key] = 0 \/ p2[key] = 0 THEN 1 ELSE p1[key]

\* the denominator under which one key's entry of diffs is held: max(a, b)
\* when the division is made, 1 when diffs gets the literal 0 or 1
KeyDen(p1, p2, key) ==
  IF p1[key] = 0 \/ p2[key] = 0 THEN 1 ELSE Max2(p1[key], p2[key])

\* the product of the four denominators
DiffDen(p1, p2) ==
  KeyDen(p1, p2, "mean") * KeyDen(p1, p2, "median")
    * KeyDen(p1, p2, "stdev") * KeyDen(p1, p2, "total_time")

DiffEntry_zero_first(p1, p2, key) ==
  LET D == DiffDen(p1, p2)
  IN  IF p1[key] = 0 \/ p2[key] = 0 THEN 10 * D
      ELSE Abs(p1[key] - p2[key]) * weights[key] * (D \div KeyDen(p1, p2, key))

\* The entry the loop appends to diffs for `key`, as a numerator over
\* 10 * DiffDen(p1, p2).
DiffEntry(p1, p2, key) ==
  LET D == DiffDen(p1, p2)
  IN  IF p1[key] = 0 /\ p2[key] = 0 THEN 0
      ELSE IF p1[key] = 0 \/ p2[key] = 0 THEN 10 * D
      ELSE Abs(p1[key] - p2[key]) * weights[key] * (D \div KeyDen(p1, p2, key))

\* total_diff = sum(diffs), as a numerator over 10 * DiffDen(p1, p2)
TotalDiffNum(p1, p2) ==
  SumSeq([i \in 1..Len(weight_keys) |-> DiffEntry(p1, p2, weight_keys[i])])

\* total_diff as a fraction
total_diff(p1, p2) == Frac(TotalDiffNum(p1, p2), 10 * DiffDen(p1, p2))

max0_unclamped(num, den) == Frac(num, den)

\* max(0, similarity), for similarity = num / den
max0(num, den) == IF num > 0 THEN Frac(num, den) ELSE Zero

compare_timing_profiles(profile1, profile2) ==
  IF Falsy(profile1) \/ Falsy(profile2) THEN Zero
  ELSE LET den == 10 * DiffDen(profile1, profile2)
           num == TotalDiffNum(profile1, profile2)
       IN  \* similarity = 1 - total_diff
           max0(den - num, den)

---------------------------------------------------------------------------
(* Inputs of the requests *)

\* A str is the sequence of its characters; "" is <<>>.  Users enroll with
\* one secret; an attempt may carry it, another one, or none.
Secret == <<"h", "2">>
WrongSecret == <<"H", "2">>

Usernames == {"alice", "bob"}

\* what a request may carry as username: a name or nothing
ReqUsernames == Usernames \cup {""}

\* the password of an enrollment request, and of an authentication request
EnrollPasswords == {Secret, <<>>}
AuthPasswords == {Secret, WrongSecret, <<>>}

\* One timing sample, in ticks: a sample of one interval (it has no
\* features) and two samples of distinct rhythm.
Timings == {<<3>>, <<1, 2>>, <<2, 4>>}

RECURSIVE SeqsUpTo(_, _)
SeqsUpTo(S, n) ==
  IF n = 0 THEN {<<>>}
  ELSE LET shorter == SeqsUpTo(S, n - 1)
       IN  shorter \cup {Append(q, x) : q \in {r \in shorter : Len(r) = n - 1}, x \in S}

\* the `timings` list of an enrollment request
AllTimings == SeqsUpTo(Timings, MaxSamples)

---------------------------------------------------------------------------
(* KeystrokeAuthenticator *)

\* username in self.profiles
Enrolled(P, username) == username \in DOMAIN P

too_few_below_two(all_timings) == Len(all_timings) < 2

\* len(all_timings) < 3
too_few_samples(all_timings) == Len(all_timings) < 3

password_never_differs(password, profile) == FALSE

\* password != profile['password']
password_differs(password, profile) == password # profile.password

accepted_reversed(similarity) == FracGeq([num |-> 3, den |-> 5], similarity)

\* similarity >= 0.60
accepted(similarity) == FracGeq(similarity, [num |-> 3, den |-> 5])

never_exists(P, username) == FALSE

\* `username in auth.profiles` of the enroll route
already_exists(P, username) == username \in DOMAIN P

\* self.profiles[username] = value
DictSet(P, username, value) ==
  [u \in DOMAIN P \cup {username} |-> IF u = username THEN value ELSE P[u]]

DictDel_keeps(P, username) == P

DictDel_clears(P, username) == EmptyDict

\* del self.profiles[username]
DictDel(P, username) == [u \in DOMAIN P \ {username} |-> P[u]]

avg_features_counts_all(all_timings) ==
  LET feats  == [i \in 1..Len(all_timings) |->
                   calculate_timing_features(all_timings[i])]
      kept   == SelectSeq(feats, LAMBDA f : ~Falsy(f))
      values(key) == [i \in 1..Len(kept) |-> kept[i][key]]
      keys   == {feature_keys[i] : i \in 1..Len(feature_keys)}
  IN  [key \in {k \in keys : values(k) # <<>>} |->
         SumSeq(values(key)) \div Len(all_timings)]

avg_features_partial(all_timings) ==
  LET feats  == [i \in 1..Len(all_timings) |->
                   calculate_timing_features(all_timings[i])]
      kept   == SelectSeq(feats, LAMBDA f : ~Falsy(f))
      values(key) == [i \in 1..Len(kept) |-> kept[i][key]]
      keys   == {feature_keys[i] : i \in 1..Len(feature_keys)}
  IN  [key \in {k \in keys : values(k) # <<>> /\ (k = "stdev" => Len(kept) >= 2)} |->
         StatMean(values(key))]

\* The loop of enroll_user over feature_keys: for each key the values of the
\* samples whose features are not None; the key is set only `if values`.
avg_features(all_timings) ==
  LET feats  == [i \in 1..Len(all_timings) |->
                   calculate_timing_features(all_timings[i])]
      kept   == SelectSeq(feats, LAMBDA f : ~Falsy(f))
      values(key) == [i \in 1..Len(kept) |-> kept[i][key]]
      keys   == {feature_keys[i] : i \in 1..Len(feature_keys)}
  IN  [key \in {k \in keys : values(k) # <<>>} |-> StatMean(values(key))]

\* enroll_user: (success, message) and self.profiles afterwards; `saved`
\* tells whether save_profiles ran
enroll_user(P, username, password, all_timings) ==
  IF too_few_samples(all_timings)
  THEN [ok |-> FALSE, message |-> "Need at least 3 samples",
        profiles |-> P, saved |-> FALSE]
  ELSE [ok |-> TRUE, message |-> "User enrolled successfully",
        profiles |-> DictSet(P, username,
                       [password        |-> password,
                        timing_profile  |-> avg_features(all_timings),
                        password_length |-> Len(password)]),
        saved |-> TRUE]

authenticate_user_hides_score(P, username, password, timings) ==
  IF ~Enrolled(P, username)
  THEN [ok |-> FALSE, message |-> "User not found", similarity |-> Zero]
  ELSE IF password_differs(password, P[username])
  THEN [ok |-> FALSE, message |-> "Incorrect password", similarity |-> Zero]
  ELSE LET current_features == calculate_timing_features(timings)
       IN  IF Falsy(current_features)
           THEN [ok |-> FALSE, message |-> "Insufficient timing data",
                 similarity |-> Zero]
           ELSE LET similarity == compare_timing_profiles(
                                    P[username].timing_profile, current_features)
                IN  IF accepted(similarity)
                    THEN [ok |-> TRUE, message |-> "Authentication successful",
                          similarity |-> similarity]
                    ELSE [ok |-> FALSE, message |-> "Typing pattern mismatch",
                          similarity |-> Zero]

\* authenticate_user: (success, message, similarity)
authenticate_user(P, username, password, timings) ==
  IF ~Enrolled(P, username)
  THEN [ok |-> FALSE, message |-> "User not found", similarity |-> Zero]
  ELSE IF password_differs(password, P[username])
  THEN [ok |-> FALSE, message |-> "Incorrect password", similarity |-> Zero]
  ELSE LET current_features == calculate_timing_features(timings)
       IN  IF Falsy(current_features)
           THEN [ok |-> FALSE, message |-> "Insufficient timing data",
                 similarity |-> Zero]
           ELSE LET similarity == compare_timing_profiles(
                                    P[username].timing_profile, current_features)
                IN  IF accepted(similarity)
                    THEN [ok |-> TRUE, message |-> "Authentication successful",
                          similarity |-> similarity]
                    ELSE [ok |-> FALSE, message |-> "Typing pattern mismatch",
                          similarity |-> similarity]

list_users_of_first(P) ==
  IF DOMAIN P = {} THEN {} ELSE {CHOOSE u \in DOMAIN P : TRUE}

\* list_users, as the set of the keys
list_users_of(P) == DOMAIN P

\* delete_user: the returned flag and self.profiles afterwards
delete_user_of(P, username) ==
  IF Enrolled(P, username)
  THEN [ok |-> TRUE, profiles |-> DictDel(P, username), saved |-> TRUE]
  ELSE [ok |-> FALSE, profiles |-> P, saved |-> FALSE]

---------------------------------------------------------------------------
(* The Flask routes *)

\* round(similarity * 100, 1), in tenths of a percent (round half to even)
RoundPct(similarity) ==
  LET n == similarity.num * 1000
      q == n \div similarity.den
      r == n % similarity.den
  IN  IF 2 * r > similarity.den THEN q + 1
      ELSE IF 2 * r = similarity.den THEN q + (q % 2)
      ELSE q

\* save_profiles: the document json.dump writes for the mapping P
save_profiles(P) == P

NoResult == [ok |-> FALSE, message |-> "", similarity |-> Zero]

\* A JSON response.  similarity is -1 when the response has no such key;
\* session is the username the handler puts in the session cookie, "" if none.
Response(success, message, similarity, users, cookie) ==
  [success |-> success, message |-> message, similarity |-> similarity,
   users |-> users, session |-> cookie]

\* What `last` records of a request: the route, its inputs (of an enrollment
\* request the number of samples, not the samples), whether the
\* KeystrokeAuthenticator method was called, what it returned, and the
\* response.
Record(op, username, password, timings, nsamples, called, result, response) ==
  [op |-> op, username |-> username, password |-> password, timings |-> timings,
   nsamples |-> nsamples, called |-> called, result |-> result,
   response |-> response]

\* POST /api/enroll
enroll(username, password, all_timings) ==
  LET rec(called, result, success, message) ==
        Record("enroll", username, password, <<>>, Len(all_timings),
               called, result,
               Response(success, message, -1, {}, ""))
  IN  IF FalsyStr(username) \/ FalsyChars(password)
      THEN /\ last' = rec(FALSE, NoResult, FALSE, "Username and password required")
           /\ UNCHANGED <<profiles, disk, deleted, sc, ex, th, snaps>>
      ELSE IF already_exists(profiles, username)
      THEN /\ last' = rec(FALSE, NoResult, FALSE, "User already exists")
           /\ UNCHANGED <<profiles, disk, deleted, sc, ex, th, snaps>>
      ELSE LET r == enroll_user(profiles, username, password, all_timings)
           IN  /\ profiles' = r.profiles
               /\ disk' = IF r.saved THEN save_profiles(r.profiles) ELSE disk
               /\ last' = rec(TRUE, [ok |-> r.ok, message |-> r.message,
                                     similarity |-> Zero], r.ok, r.message)
               /\ deleted' = IF r.ok THEN deleted \ {username} ELSE deleted
               /\ UNCHANGED <<sc, ex, th, snaps>>

\* POST /api/authenticate
authenticate(username, password, timings) ==
  IF FalsyStr(username) \/ FalsyChars(password)
  THEN /\ last' = Record("authenticate", username, password, timings, 0,
                         FALSE, NoResult,
                         Response(FALSE, "Username and password required", -1, {}, ""))
       /\ UNCHANGED <<profiles, disk, deleted, sc, ex, th, snaps>>
  ELSE LET r == authenticate_user(profiles, username, password, timings)
       IN  /\ last' = Record("authenticate", username, password, timings, 0,
                             TRUE, r,
                             Response(r.ok, r.message, RoundPct(r.similarity), {},
                                      IF r.ok THEN username ELSE ""))
           /\ UNCHANGED <<profiles, disk, deleted, sc, ex, th, snaps>>

\* GET /api/users
list_users ==
  /\ last' = Record("list_users", "", <<>>, <<>>, 0, TRUE, NoResult,
                    Response(TRUE, "", -1, list_users_of(profiles), ""))
  /\ UNCHANGED <<profiles, disk, deleted, sc, ex, th, snaps>>

\* POST /api/delete
delete_user(username) ==
  IF FalsyStr(username)
  THEN /\ last' = Record("delete_user", username, <<>>, <<>>, 0, FALSE,
                         NoResult, Response(FALSE, "Username required", -1, {}, ""))
       /\ UNCHANGED <<profiles, disk, deleted, sc, ex, th, snaps>>
  ELSE LET r == delete_user_of(profiles, username)
       IN  /\ profiles' = r.profiles
           /\ disk' = IF r.saved THEN save_profiles(r.profiles) ELSE disk
           /\ last' = Record("delete_user", username, <<>>, <<>>, 0, TRUE,
                             [ok |-> r.ok, message |-> "", similarity |-> Zero],
                             Response(r.ok,
                                      IF r.ok THEN "User deleted" ELSE "User not found",
                                      -1, {}, ""))
           /\ deleted' = IF r.ok THEN deleted \cup {username} ELSE deleted
           /\ UNCHANGED <<sc, ex, th, snaps>>

---------------------------------------------------------------------------
(* The service *)

NoCall == [pc |-> "none", profile1 |-> None, profile2 |-> None, result |-> Zero]

NoDirectCall == [pc |-> "none", fn |-> "", arg |-> <<>>, result |-> None]

\* the threads of the development server (app.run, threaded by default)
Threads == {1, 2}

\* a thread that has not received its request
IdleThread ==
  [pc |-> "idle", op |-> "", username |-> "", all_timings |-> <<>>,
   success |-> FALSE, message |-> ""]

NoThreads == [t \in Threads |-> IdleThread]

\* auth = KeystrokeAuthenticator() with no profile file yet: load_profiles
\* returns {}
Init ==
  /\ profiles = EmptyDict
  /\ disk = EmptyDict
  /\ last = Record("init", "", <<>>, <<>>, 0, FALSE, NoResult,
                   Response(FALSE, "", -1, {}, ""))
  /\ deleted = {}
  /\ sc = NoCall
  /\ ex = NoDirectCall
  /\ th = NoThreads
  /\ snaps = {EmptyDict}

EnrollStep ==
  \E username \in ReqUsernames, password \in EnrollPasswords, all_timings \in AllTimings :
    enroll(username, password, all_timings)

AuthenticateStep ==
  \E username \in ReqUsernames, password \in AuthPasswords, timings \in Timings :
    authenticate(username, password, timings)

DeleteStep == \E username \in ReqUsernames : delete_user(username)

Next == EnrollStep \/ AuthenticateStep \/ list_users \/ DeleteStep

Spec == Init /\ [][Next]_vars

---------------------------------------------------------------------------
(* Direct calls of compare_timing_profiles *)

\* a feature vector whose four scored values are v (min and max are not read)
Features(mean, median, stdev, total_time) ==
  [mean |-> mean, median |-> median, stdev |-> stdev, min |-> 0, max |-> 0,
   total_time |-> total_time]

FeatureVectors ==
  {Features(a, b, c, d) : a \in 0..MaxFeature, b \in 0..MaxFeature,
                          c \in 0..MaxFeature, d \in 0..MaxFeature}

\* what a caller may hand over: a feature vector, None or an empty dict
ScoreArgs == FeatureVectors \cup {None, EmptyDict}

ScoreInit ==
  /\ profiles = EmptyDict
  /\ disk = EmptyDict
  /\ last = Record("init", "", <<>>, <<>>, 0, FALSE, NoResult,
                   Response(FALSE, "", -1, {}, ""))
  /\ deleted = {}
  /\ ex = NoDirectCall
  /\ th = NoThreads
  /\ snaps = {EmptyDict}
  /\ \E a \in ScoreArgs, b \in ScoreArgs :
       sc = [pc |-> "call", profile1 |-> a, profile2 |-> b, result |-> Zero]

Compare ==
  /\ sc.pc = "call"
  /\ sc' = [sc EXCEPT !.pc = "done",
                      !.result = compare_timing_profiles(sc.profile1, sc.profile2)]
  /\ UNCHANGED <<profiles, disk, last, deleted, ex, th, snaps>>

ScoreNext == Compare

ScoreSpec == ScoreInit /\ [][ScoreNext]_vars

---------------------------------------------------------------------------
(* Direct calls of calculate_timing_features and of enroll_user *)

\* the timing samples handed to calculate_timing_features
ExtractArgs == SeqsUpTo(0..MaxTick, MaxLen)

\* the username of a direct call of enroll_user
DirectUser == "alice"

DirectInit ==
  /\ profiles = EmptyDict
  /\ disk = EmptyDict
  /\ last = Record("init", "", <<>>, <<>>, 0, FALSE, NoResult,
                   Response(FALSE, "", -1, {}, ""))
  /\ deleted = {}
  /\ sc = NoCall
  /\ th = NoThreads
  /\ snaps = {EmptyDict}
  /\ \/ \E timings \in ExtractArgs :
          ex = [pc |-> "call", fn |-> "calculate_timing_features",
                arg |-> timings, result |-> None]
     \/ \E all_timings \in AllTimings :
          ex = [pc |-> "call", fn |-> "enroll_user",
                arg |-> all_timings, result |-> None]

Extract ==
  /\ ex.pc = "call"
  /\ ex.fn = "calculate_timing_features"
  /\ ex' = [ex EXCEPT !.pc = "done", !.result = calculate_timing_features(ex.arg)]
  /\ UNCHANGED <<profiles, disk, last, deleted, sc, th, snaps>>

\* enroll_user on an authenticator that holds no profile
Aggregate ==
  /\ ex.pc = "call"
  /\ ex.fn = "enroll_user"
  /\ ex' = [ex EXCEPT !.pc = "done",
                      !.result = enroll_user(EmptyDict, DirectUser, Secret, ex.arg)]
  /\ UNCHANGED <<profiles, disk, last, deleted, sc, th, snaps>>

DirectNext == Extract \/ Aggregate

DirectSpec == DirectInit /\ [][DirectNext]_vars

---------------------------------------------------------------------------
(* Two requests handled at the same time.  Each thread handles one request;
   a step is a stretch of a handler between two points where the interpreter
   may switch threads.  No handler takes a lock. *)

\* the enrollment samples of the two requests: three equal samples each
ConcSamples == {<<t, t, t>> : t \in {<<1, 2>>, <<2, 4>>}}

\* the profile enroll_user stores for these samples
StoredProfile(username, all_timings) ==
  enroll_user(EmptyDict, username, Secret, all_timings).profiles[username]

\* profile_file after open(self.profile_file, 'w') and before json.dump
\* wrote to it: it exists and has no content
EmptyFile == [file |-> "empty"]

\* the store the server starts with: empty, or bob enrolled earlier
ConcStart == {EmptyDict, DictSet(EmptyDict, "bob", StoredProfile("bob", <<<<1, 2>>, <<1, 2>>, <<1, 2>>>>))}

ConcInit ==
  /\ \E P \in ConcStart :
       /\ profiles = P
       /\ disk = P
       /\ snaps = {P}
  /\ last = Record("init", "", <<>>, <<>>, 0, FALSE, NoResult,
                   Response(FALSE, "", -1, {}, ""))
  /\ deleted = {}
  /\ sc = NoCall
  /\ ex = NoDirectCall
  /\ th = NoThreads

\* the thread ends its request with this response
Respond(t, success, message) ==
  [th EXCEPT ![t].pc = "done", ![t].success = success, ![t].message = message]

\* POST /api/enroll up to the call of enroll_user: the test of
\* `username in auth.profiles`
enroll_check(t, username, all_timings) ==
  /\ th[t].pc = "idle"
  /\ ~(FalsyStr(username) \/ FalsyChars(Secret))
  /\ LET received == [th EXCEPT ![t].op = "enroll", ![t].username = username,
                                ![t].all_timings = all_timings]
     IN  IF already_exists(profiles, username)
         THEN th' = [received EXCEPT ![t].pc = "done", ![t].success = FALSE,
                                     ![t].message = "User already exists"]
         ELSE th' = [received EXCEPT ![t].pc = "checked"]
  /\ UNCHANGED <<profiles, disk, last, deleted, sc, ex, snaps>>

\* enroll_user up to the assignment of self.profiles[username]
enroll_store(t) ==
  /\ th[t].pc = "checked"
  /\ LET r == enroll_user(profiles, th[t].username, Secret, th[t].all_timings)
     IN  /\ profiles' = r.profiles
         /\ th' = IF r.saved
                  THEN [th EXCEPT ![t].pc = "stored", ![t].success = r.ok,
                                  ![t].message = r.message]
                  ELSE Respond(t, r.ok, r.message)
  /\ UNCHANGED <<disk, last, deleted, sc, ex, snaps>>

\* POST /api/delete up to the test `username in self.profiles` of
\* delete_user
delete_check(t, username) ==
  /\ th[t].pc = "idle"
  /\ ~FalsyStr(username)
  /\ LET received == [th EXCEPT ![t].op = "delete_user", ![t].username = username]
     IN  IF Enrolled(profiles, username)
         THEN th' = [received EXCEPT ![t].pc = "found"]
         ELSE th' = [received EXCEPT ![t].pc = "done", ![t].success = FALSE,
                                     ![t].message = "User not found"]
  /\ UNCHANGED <<profiles, disk, last, deleted, sc, ex, snaps>>

\* del self.profiles[username]; a KeyError when another thread removed the
\* key since the test, which the server answers with status 500
delete_del(t) ==
  /\ th[t].pc = "found"
  /\ IF th[t].username \in DOMAIN profiles
     THEN /\ profiles' = DictDel(profiles, th[t].username)
          /\ th' = [th EXCEPT ![t].pc = "stored", ![t].success = TRUE,
                              ![t].message = "User deleted"]
     ELSE /\ profiles' = profiles
          /\ th' = Respond(t, FALSE, "Internal Server Error")
  /\ UNCHANGED <<disk, last, deleted, sc, ex, snaps>>

\* save_profiles: open(self.profile_file, 'w') truncates the file
save_open(t) ==
  /\ th[t].pc = "stored"
  /\ disk' = EmptyFile
  /\ th' = [th EXCEPT ![t].pc = "opened"]
  /\ UNCHANGED <<profiles, last, deleted, sc, ex, snaps>>

\* save_profiles: json.dump(self.profiles, f) and the close of the file;
\* the method returns and the route answers
save_dump(t) ==
  /\ th[t].pc = "opened"
  /\ disk' = save_profiles(profiles)
  /\ snaps' = snaps \cup {profiles}
  /\ th' = [th EXCEPT ![t].pc = "done"]
  /\ UNCHANGED <<profiles, last, deleted, sc, ex>>

EnrollCheckStep ==
  \E t \in Threads, username \in Usernames, all_timings \in ConcSamples :
    enroll_check(t, username, all_timings)

EnrollStoreStep == \E t \in Threads : enroll_store(t)

DeleteCheckStep == \E t \in Threads, username \in Usernames : delete_check(t, username)

DeleteDelStep == \E t \in Threads : delete_del(t)

SaveOpenStep == \E t \in Threads : save_open(t)

SaveDumpStep == \E t \in Threads : save_dump(t)

ConcNext ==
  \/ EnrollCheckStep
  \/ EnrollStoreStep
  \/ DeleteCheckStep
  \/ DeleteDelStep
  \/ SaveOpenStep
  \/ SaveDumpStep

ConcSpec == ConcInit /\ [][ConcNext]_vars

---------------------------------------------------------------------------
(* Properties of authentication and enrollment, under Spec *)

\* 0.60 as a fraction
SixtyPercent == [num |-> 3, den |-> 5]

\* the four conditions of acceptance, for a request against the store P
Acceptable(P, username, password, timings) ==
  /\ username \in DOMAIN P
  /\ password = P[username].password
  /\ Len(timings) >= 2
  /\ FracGeq(compare_timing_profiles(P[username].timing_profile,
                                     calculate_timing_features(timings)),
             SixtyPercent)

\* C1: authenticate reports success if and only if the username holds a
\* profile, the secret equals the stored secret, the sample has at least 2
\* intervals and the score of the stored reference against the sample's
\* features is at least 0.60; otherwise it reports failure.  (The store is
\* not changed by authenticate, so `profiles` is the store the call saw.)
C1_AcceptIff ==
  last.op = "authenticate" =>
    /\ last.response.success
         <=> Acceptable(profiles, last.username, last.password, last.timings)
    /\ last.called => (last.result.ok <=> last.response.success)
    /\ \A u \in ReqUsernames, p \in AuthPasswords, t \in Timings :
         authenticate_user(profiles, u, p, t).ok <=> Acceptable(profiles, u, p, t)

\* an accepted attempt whose score is below 1
C1_Witness ==
  /\ last.op = "authenticate"
  /\ last.called
  /\ last.result.ok
  /\ last.result.similarity # One
  /\ Acceptable(profiles, last.username, last.password, last.timings)

IncorrectPassword ==
  [ok |-> FALSE, message |-> "Incorrect password", similarity |-> Zero]

\* the store P with the reference features of username replaced
WithReference(P, username, features) ==
  [P EXCEPT ![username].timing_profile = features]

\* reference features a profile may hold
References ==
  {EmptyDict} \cup {calculate_timing_features(t) : t \in {x \in Timings : Len(x) >= 2}}

\* C2: for an enrolled username and a secret other than the stored one,
\* authenticate returns (failure, "Incorrect password", 0), and the returned
\* triple is the same for every timing sample and every stored reference.
C2_WrongSecretBlind ==
  /\ (/\ last.op = "authenticate"
      /\ last.called
      /\ last.username \in DOMAIN profiles
      /\ last.password # profiles[last.username].password)
       => /\ last.result = IncorrectPassword
          /\ last.response.similarity = 0
  /\ \A u \in DOMAIN profiles, p \in AuthPasswords :
       p # profiles[u].password =>
         \A t1 \in Timings, t2 \in Timings, f \in References :
           /\ authenticate_user(profiles, u, p, t1) = IncorrectPassword
           /\ authenticate_user(WithReference(profiles, u, f), u, p, t2)
                = authenticate_user(profiles, u, p, t1)

\* a wrong secret sent with a sample that the right secret would have had
\* accepted
C2_Witness ==
  /\ last.op = "authenticate"
  /\ last.called
  /\ last.username \in DOMAIN profiles
  /\ last.password # profiles[last.username].password
  /\ Acceptable(profiles, last.username, profiles[last.username].password,
                last.timings)

UserNotFound ==
  [ok |-> FALSE, message |-> "User not found", similarity |-> Zero]

\* C3: while a username holds no profile (never enrolled, or deleted and not
\* enrolled again since), authenticate for it returns (failure, "User not
\* found", 0) whatever the secret and the sample; a successful delete_user
\* leaves the username without a profile.
C3_NoProfileNotFound ==
  /\ deleted \cap DOMAIN profiles = {}
  /\ (last.op = "delete_user" /\ last.called /\ last.result.ok)
       => last.username \notin DOMAIN profiles
  /\ (last.op = "authenticate" /\ last.called /\ last.username \notin DOMAIN profiles)
       => /\ last.result = UserNotFound
          /\ last.response.similarity = 0
  /\ \A u \in ReqUsernames \ DOMAIN profiles, p \in AuthPasswords, t \in Timings :
       authenticate_user(profiles, u, p, t) = UserNotFound

\* an attempt with the right secret and a good sample for a username that
\* was enrolled and then deleted
C3_Witness ==
  /\ last.op = "authenticate"
  /\ last.called
  /\ last.username \in deleted
  /\ last.password = Secret
  /\ Len(last.timings) >= 2
  /\ last.result = UserNotFound

C5_TooFewSamples ==
  [][(last'.op = "enroll" /\ last'.nsamples < 3)
       => /\ ~last'.response.success
          /\ profiles' = profiles
          /\ disk' = disk
          /\ last'.called
               => /\ ~last'.result.ok
                  /\ last'.result.message = "Need at least 3 samples"
                  /\ last'.response.message = "Need at least 3 samples"]_vars

\* enroll_user was called with 2 samples
C5_Witness ==
  /\ last.op = "enroll"
  /\ last.called
  /\ last.nsamples = 2
  /\ last.response.message = "Need at least 3 samples"

\* C6: every profile in the store has reference features derived from at
\* least one extracted feature vector: enrollment stores no profile whose
\* feature record is empty (an enrollment whose samples all have fewer than
\* 2 intervals fails).
C6_ReferenceNeverEmpty ==
  \A u \in DOMAIN profiles : ~Falsy(profiles[u].timing_profile)

---------------------------------------------------------------------------
(* Properties of compare_timing_profiles, under ScoreSpec *)

Scored == sc.pc = "done"

BothGiven == ~Falsy(sc.profile1) /\ ~Falsy(sc.profile2)

\* C7: the score of any two arguments (feature vectors of non-negative
\* values, None or an empty dict) lies in [0, 1].
C7_ScoreInUnitRange ==
  Scored => /\ sc.result.den > 0
            /\ 0 <= sc.result.num
            /\ sc.result.num <= sc.result.den

\* a call whose 1 - total_diff is negative
C7_Witness ==
  /\ Scored
  /\ BothGiven
  /\ TotalDiffNum(sc.profile1, sc.profile2) > 10 * DiffDen(sc.profile1, sc.profile2)
  /\ sc.result = Zero

\* exactly one of the two values of key is 0
OneZero(key) == (sc.profile1[key] = 0) # (sc.profile2[key] = 0)

\* C8: each of the four keys adds its normalized difference times its
\* weight to total_diff, also when exactly one of the two values is 0 (it
\* then adds the weight itself), so total_diff is at most 1.
C8_WeightedDiffs ==
  (Scored /\ BothGiven) =>
    /\ \A i \in 1..Len(weight_keys) :
         LET key == weight_keys[i]
         IN  OneZero(key) =>
               DiffEntry(sc.profile1, sc.profile2, key)
                 = weights[key] * DiffDen(sc.profile1, sc.profile2)
    /\ TotalDiffNum(sc.profile1, sc.profile2)
         <= 10 * DiffDen(sc.profile1, sc.profile2)

\* C9: a feature vector scored against itself gives 1, also when some of
\* its values are 0.
C9_SelfScoreIsOne ==
  (Scored /\ BothGiven /\ sc.profile1 = sc.profile2) => sc.result = One

\* a vector with a zero and a non-zero value, scored against itself
C9_Witness ==
  /\ Scored
  /\ BothGiven
  /\ sc.profile1 = sc.profile2
  /\ sc.profile1.stdev = 0
  /\ sc.profile1.mean > 0

\* C10: swapping the two arguments does not change the score.
C10_Symmetric ==
  Scored => sc.result = compare_timing_profiles(sc.profile2, sc.profile1)

\* two different vectors whose score is neither 0 nor 1
C10_Witness ==
  /\ Scored
  /\ BothGiven
  /\ sc.profile1 # sc.profile2
  /\ sc.result # Zero
  /\ sc.result # One

---------------------------------------------------------------------------
(* Properties of calculate_timing_features and of the aggregation, under
   DirectSpec *)

SixKeys == {"mean", "median", "stdev", "min", "max", "total_time"}

Extracted == ex.pc = "done" /\ ex.fn = "calculate_timing_features"

\* C11: calculate_timing_features returns None for every sample of 0 or 1
\* intervals, and for every longer sample a record in which each of mean,
\* median, stdev, min, max and total_time has a (non-negative) value.
C11_ExtractDefined ==
  Extracted =>
    IF Len(ex.arg) < 2
    THEN ex.result = None
    ELSE /\ DOMAIN ex.result = SixKeys
         /\ \A key \in SixKeys : ex.result[key] \in Nat

\* a sample of exactly one interval
C11_Witness ==
  /\ Extracted
  /\ Len(ex.arg) = 1
  /\ ex.result = None

Aggregated == ex.pc = "done" /\ ex.fn = "enroll_user"

\* the samples of at least 2 intervals
LongSamples(all_timings) == SelectSeq(all_timings, LAMBDA t : Len(t) >= 2)

\* the sum over the samples of the value of key
KeySum(samples, key) ==
  SumSeq([i \in 1..Len(samples) |-> calculate_timing_features(samples[i])[key]])

\* C16: after a successful enrollment the stored reference value of each of
\* the six keys is the arithmetic mean (rounded down to the fixed-point
\* resolution) of that key over exactly the samples of at least 2
\* intervals; shorter samples weigh on no key.
C16_ReferenceIsMean ==
  (Aggregated /\ ex.result.ok) =>
    LET long      == LongSamples(ex.arg)
        n         == Len(long)
        reference == ex.result.profiles[DirectUser].timing_profile
    IN  n > 0 =>
          \A key \in SixKeys :
            /\ key \in DOMAIN reference
            /\ n * reference[key] <= KeySum(long, key)
            /\ KeySum(long, key) < n * (reference[key] + 1)

\* an enrollment of one short sample and two samples of different rhythm
C16_Witness ==
  /\ Aggregated
  /\ ex.result.ok
  /\ Len(ex.arg) = 3
  /\ Len(LongSamples(ex.arg)) = 2
  /\ LongSamples(ex.arg)[1] # LongSamples(ex.arg)[2]

---------------------------------------------------------------------------
(* Further properties of the routes, under Spec *)

\* C12: delete_user for an enrolled username removes its profile and
\* reports success; for any other username it reports not-found and changes
\* nothing; the profiles of all other usernames stay as they were.
C12_DeleteFrame ==
  [][(last'.op = "delete_user" /\ last'.called)
       => /\ IF last'.username \in DOMAIN profiles
             THEN /\ last'.result.ok
                  /\ last'.response.success
                  /\ last'.response.message = "User deleted"
                  /\ DOMAIN profiles' = DOMAIN profiles \ {last'.username}
                  /\ disk' = profiles'
             ELSE /\ ~last'.result.ok
                  /\ ~last'.response.success
                  /\ last'.response.message = "User not found"
                  /\ profiles' = profiles
                  /\ disk' = disk
          /\ \A u \in Usernames \ {last'.username} :
               /\ u \in DOMAIN profiles' <=> u \in DOMAIN profiles
               /\ u \in DOMAIN profiles => profiles'[u] = profiles[u]]_vars

\* a user was deleted while another one stays enrolled
C12_Witness ==
  /\ last.op = "delete_user"
  /\ last.result.ok
  /\ last.username \in deleted
  /\ DOMAIN profiles # {}

\* the score of the stored reference of username against a sample
ScoreOf(P, username, timings) ==
  compare_timing_profiles(P[username].timing_profile,
                          calculate_timing_features(timings))

\* the four conditions of the pattern-mismatch rejection
Mismatching(P, username, password, timings) ==
  /\ username \in DOMAIN P
  /\ password = P[username].password
  /\ Len(timings) >= 2
  /\ ~FracGeq(ScoreOf(P, username, timings), SixtyPercent)

\* C15: authenticate_user ends in "Typing pattern mismatch" exactly when the
\* user is enrolled, the secret matches, the sample has at least 2 intervals
\* and the score is below 0.60; it then returns the score itself, and every
\* other rejection returns similarity 0.
C15_MismatchReportsScore ==
  /\ (last.op = "authenticate" /\ last.called) =>
       /\ last.result.message = "Typing pattern mismatch"
            <=> Mismatching(profiles, last.username, last.password, last.timings)
       /\ last.result.message = "Typing pattern mismatch" =>
            /\ last.result.similarity
                 = ScoreOf(profiles, last.username, last.timings)
            /\ last.response.similarity = RoundPct(last.result.similarity)
       /\ (~last.result.ok /\ last.result.message # "Typing pattern mismatch")
            => last.result.similarity = Zero
  /\ \A u \in ReqUsernames, p \in AuthPasswords, t \in Timings :
       LET r == authenticate_user(profiles, u, p, t)
       IN  /\ r.message = "Typing pattern mismatch" <=> Mismatching(profiles, u, p, t)
           /\ r.message = "Typing pattern mismatch"
                => r.similarity = ScoreOf(profiles, u, t)
           /\ (~r.ok /\ r.message # "Typing pattern mismatch") => r.similarity = Zero

\* a pattern mismatch whose score is not 0
C15_Witness ==
  /\ last.op = "authenticate"
  /\ last.called
  /\ last.result.message = "Typing pattern mismatch"
  /\ last.result.similarity # Zero
  /\ last.response.similarity > 0

\* C17: the reference features of every stored profile (in memory and in
\* the file) hold all six keys or no key at all, so a reference that is
\* scored has each of the four scored keys.
C17_AllKeysOrNone ==
  \A P \in {profiles, disk} :
    \A u \in DOMAIN P :
      /\ DOMAIN P[u].timing_profile \in {SixKeys, {}}
      /\ ~Falsy(P[u].timing_profile) =>
           \A i \in 1..Len(weight_keys) : weight_keys[i] \in DOMAIN P[u].timing_profile

\* one stored reference has all six keys, another has none
C17_Witness ==
  \E u \in DOMAIN profiles, v \in DOMAIN profiles :
    /\ DOMAIN profiles[u].timing_profile = SixKeys
    /\ DOMAIN profiles[v].timing_profile = {}

\* C18: authenticate and list_users leave the in-memory store and the file
\* as they were, whatever they answer, and list_users answers with exactly
\* the usernames that hold a profile.
C18_ReadOnly ==
  [][/\ last'.op \in {"authenticate", "list_users"}
          => /\ profiles' = profiles
             /\ disk' = disk
     /\ last'.op = "list_users" => last'.response.users = DOMAIN profiles]_vars

\* list_users answered with two usernames
C18_Witness ==
  /\ last.op = "list_users"
  /\ last.response.users = Usernames
  /\ DOMAIN profiles = Usernames

---------------------------------------------------------------------------
(* Properties of requests handled at the same time, under ConcSpec *)

\* thread t answered an enrollment of username with success
EnrolledBy(t, username) ==
  /\ th[t].pc = "done"
  /\ th[t].op = "enroll"
  /\ th[t].username = username
  /\ th[t].success

\* C13: of two enroll requests for the same username handled at the same
\* time at most one is answered with success, and the profile stored is the
\* one that request supplied.
C13_EnrollSerialized ==
  \A username \in Usernames :
    \A t \in Threads :
      EnrolledBy(t, username) =>
        /\ \A o \in Threads \ {t} : ~EnrolledBy(o, username)
        /\ (\A o \in Threads : th[o].pc = "done") =>
             /\ username \in DOMAIN profiles
             /\ profiles[username] = StoredProfile(username, th[t].all_timings)

\* C14: the content of the profile file is at every moment a complete
\* mapping: the in-memory mapping as it stood at start or when some enroll
\* or delete returned.
C14_FileAlwaysComplete ==
  /\ disk # EmptyFile
  /\ disk \in snaps

=============================================================================
